---- MODULE Spec2Model ----
(***************************************************************************)
(* Registration drawer of the chat page: the DrawerProvider store          *)
(* (drawer-context), the drawer content buttons (custom-drawer) and the    *)
(* ChatInput controller (chat-input.tsx).                                  *)
(*                                                                         *)
(* A handler, a timer callback or a promise continuation is one action:    *)
(* its batched state updates, the re-render they cause and the effects     *)
(* that re-render runs (and the second render an effect's own state update *)
(* causes) all happen inside the action.                                   *)
(*                                                                         *)
(* Time is in milliseconds and is kept relative: a timeout is the time     *)
(* left until it fires, and a Date.now() stamp is the time passed since it *)
(* was taken (up to AgeCap, beyond which no comparison of the program      *)
(* tells two ages apart).  Timers fire at their deadline: time never       *)
(* passes a pending deadline, but any event may come between two timers    *)
(* due at the same instant.  User events, chat-transport events and the    *)
(* settlements of saveEmail are sampled every Quantum ms; timers fire at   *)
(* whatever instant they are due.                                          *)
(***************************************************************************)
EXTENDS Integers, Sequences, FiniteSets

VARIABLES
  isOpen,              \* DrawerProvider useState
  isWaitingForEmail,   \* DrawerProvider useState
  isAutomaticOpen,     \* DrawerProvider useState
  registrationSuccess, \* DrawerProvider useState
  timeSinceClose,      \* Date.now() - lastCloseTimeRef.current, up to ReopenSuppressMs
  autoCloseTimer,      \* time left of the auto-close effect's timeout, or NoTimer
  successTimer,        \* time left of the success-reset effect's timeout, or NoTimer
  forceCloseTimers,    \* times left of closeDrawer's 50 ms timeouts (never cleared)
  noClickTimers,       \* times left of handleNoClick's 100 ms timeouts (never cleared)
  cooldownRef,         \* ChatInput useRef
  cooldownTimers,      \* times left of the 10 s cooldown timeouts (never cleared)
  pending,             \* saveEmail calls in flight: the input each was issued with
  status,              \* chat.status
  input,               \* chat.input
  lastMessage,         \* messages[messages.length - 1], or NoMessage
  mounted,             \* the session view is mounted
  phase,               \* time since the mount, modulo the sampling period
  openAge,             \* history: time since isOpen turned true (0 while closed)
  closedAge,           \* history: time since isOpen turned false (0 while open)
  successAge,          \* history: time since the closed drawer is in the success
                       \* sub-mode (0 while it is not)
  autoOpened,          \* history: the drawer was opened automatically since the
                       \* last change of the last message or of the status
  last                 \* history: what the last step did (see Op)

vars == <<isOpen, isWaitingForEmail, isAutomaticOpen, registrationSuccess,
          timeSinceClose, autoCloseTimer, successTimer, forceCloseTimers,
          noClickTimers, cooldownRef, cooldownTimers, pending, status, input,
          lastMessage, mounted, phase, openAge, closedAge, successAge,
          autoOpened, last>>

(***************************************************************************)
(* Program constants (the literals of the source).                         *)
(***************************************************************************)
AutoCloseMs == 8000
SuccessResetMs == 500
ReopenSuppressMs == 2000
ForceCloseMs == 50
NoClickRetryMs == 100
CooldownMs == 10000

(***************************************************************************)
(* Bounds of the model.                                                    *)
(***************************************************************************)
\* The period user and chat-transport events are sampled at.
Quantum == 2000
\* The period the calls of the store are sampled at, when the store is taken
\* alone.
StoreQuantum == 500
\* saveEmail calls in flight at once.
MaxPending == 2
\* Timeouts of one kind pending at once.
MaxTimers == 2

\* Ages are kept up to the longest delay the program knows.
AgeCap == CooldownMs

NoTimer == -1
NoMessage == [role |-> "none", content |-> <<>>]
NoText == <<"<none>">>

(***************************************************************************)
(* Texts: sequences of one-character strings.                              *)
(***************************************************************************)
TxtEmpty == <<>>
TxtEmail == <<"a", "@", "b", ".", "c", "o">>
TxtNoDot == <<"a", "@", "b">>
Texts == {TxtEmpty, TxtEmail, TxtNoDot}

Whitespace == {" ", "\t", "\n"}

\* [^\s@]
NotSpaceAt(c) == c \notin Whitespace /\ c # "@"

\* /^[^\s@]+@[^\s@]+\.[^\s@]+$/.test(s)
emailRegexTest(s) ==
  \E p \in 1..Len(s) : \E q \in 1..Len(s) :
    /\ s[p] = "@"
    /\ s[q] = "."
    /\ 1 < p
    /\ p + 1 < q
    /\ q < Len(s)
    /\ \A i \in 1..Len(s) : i # p => NotSpaceAt(s[i])

(***************************************************************************)
(* Messages and the registration keywords.                                 *)
(***************************************************************************)
UpperCase == <<"A", "B", "C", "D", "E", "F", "G", "H", "I", "J", "K", "L", "M",
               "N", "O", "P", "Q", "R", "S", "T", "U", "V", "W", "X", "Y", "Z">>
LowerCase == <<"a", "b", "c", "d", "e", "f", "g", "h", "i", "j", "k", "l", "m",
               "n", "o", "p", "q", "r", "s", "t", "u", "v", "w", "x", "y", "z">>

toLowerCaseChar(c) ==
  IF \E i \in 1..Len(UpperCase) : UpperCase[i] = c
    THEN LowerCase[CHOOSE i \in 1..Len(UpperCase) : UpperCase[i] = c]
    ELSE c

toLowerCase(s) == [i \in 1..Len(s) |-> toLowerCaseChar(s[i])]

includes(s, k) ==
  \E i \in 1..(Len(s) - Len(k) + 1) : SubSeq(s, i, i + Len(k) - 1) = k

registrationKeywords == {
  <<"r", "e", "g", "i", "s", "t", "e", "r">>,
  <<"s", "i", "g", "n", "u", "p">>,
  <<"s", "i", "g", "n", " ", "u", "p">>,
  <<"s", "u", "b", "s", "c", "r", "i", "b", "e">>,
  <<"a", "c", "c", "o", "u", "n", "t">>,
  <<"c", "r", "e", "a", "t", "e", " ", "a", "c", "c", "o", "u", "n", "t">>,
  <<"i", "n", "s", "c", "r", "i", "r", "e">>,
  <<"m", "'", "i", "n", "s", "c", "r", "i", "r", "e">>,
  <<"i", "n", "s", "c", "r", "i", "p", "t", "i", "o", "n">> }

hasIntent(content) ==
  \E k \in registrationKeywords : includes(toLowerCase(content), k)

MsgSignUp == [role |-> "user", content |-> <<"S", "i", "g", "n", " ", "u", "p">>]
MsgHello == [role |-> "user", content |-> <<"h", "e", "l", "l", "o">>]
MsgReply == [role |-> "assistant", content |-> <<"a", "c", "c", "o", "u", "n", "t">>]
Messages == {MsgSignUp, MsgHello, MsgReply}

Statuses == {"ready", "streaming", "submitted", "error"}

(***************************************************************************)
(* The program state as one record, so that a handler is a function from   *)
(* state to state and handlers compose the way the calls in the source do. *)
(***************************************************************************)
World ==
  [isOpen |-> isOpen, isWaitingForEmail |-> isWaitingForEmail,
   isAutomaticOpen |-> isAutomaticOpen, registrationSuccess |-> registrationSuccess,
   timeSinceClose |-> timeSinceClose, autoCloseTimer |-> autoCloseTimer,
   successTimer |-> successTimer, forceCloseTimers |-> forceCloseTimers,
   noClickTimers |-> noClickTimers, cooldownRef |-> cooldownRef,
   cooldownTimers |-> cooldownTimers, pending |-> pending, status |-> status,
   input |-> input, lastMessage |-> lastMessage, mounted |-> mounted]

\* What a render reads: a change of any of these re-renders the view.
Rendered(w) ==
  <<w.isOpen, w.isWaitingForEmail, w.isAutomaticOpen, w.registrationSuccess,
    w.status, w.input, w.lastMessage>>

\* State setters: React drops an update of an unmounted component.
setIsOpen(w, v) == IF w.mounted THEN [w EXCEPT !.isOpen = v] ELSE w
setIsAutomaticOpen(w, v) == IF w.mounted THEN [w EXCEPT !.isAutomaticOpen = v] ELSE w
setIsWaitingForEmail(w, v) == IF w.mounted THEN [w EXCEPT !.isWaitingForEmail = v] ELSE w
setRegistrationSuccess(w, v) == IF w.mounted THEN [w EXCEPT !.registrationSuccess = v] ELSE w


\* isAIWriting with the "submitted" status forgotten.
isAIWritingStreamingOnly(w) == w.status = "streaming"

isAIWriting(w) == w.status = "streaming" \/ w.status = "submitted"

isLoading(w) == w.status = "streaming" \/ w.status = "submitted"

drawerIsVisible(w) == w.isOpen /\ ~isAIWriting(w)

(***************************************************************************)
(* DrawerProvider operations.                                              *)
(***************************************************************************)

\* openDrawer without the check of the time since the last close.
openDrawerNoWindow(w, isAutomatic) ==
  IF ~isAIWriting(w)
    THEN setIsAutomaticOpen(setIsOpen(w, TRUE), isAutomatic)
    ELSE w

openDrawer(w, isAutomatic) ==
  IF w.timeSinceClose < ReopenSuppressMs
    THEN w
    ELSE IF ~isAIWriting(w)
           THEN setIsAutomaticOpen(setIsOpen(w, TRUE), isAutomatic)
           ELSE w

\* closeDrawer without the stamp of the time of the close.
closeDrawerNoStamp(w) ==
  LET w2 == setIsWaitingForEmail(setIsAutomaticOpen(setIsOpen(w, FALSE), FALSE), FALSE)
  IN [w2 EXCEPT !.forceCloseTimers = @ \cup {ForceCloseMs}]

\* closeDrawer leaving isAutomaticOpen as it is.
closeDrawerKeepsOrigin(w) ==
  LET w1 == [w EXCEPT !.timeSinceClose = 0]
      w2 == setIsWaitingForEmail(setIsOpen(w1, FALSE), FALSE)
  IN [w2 EXCEPT !.forceCloseTimers = @ \cup {ForceCloseMs}]

closeDrawer(w) ==
  LET w1 == [w EXCEPT !.timeSinceClose = 0]
      w2 == setIsWaitingForEmail(setIsAutomaticOpen(setIsOpen(w1, FALSE), FALSE), FALSE)
  IN [w2 EXCEPT !.forceCloseTimers = @ \cup {ForceCloseMs}]

\* toggleDrawer doing nothing while the assistant is busy.
toggleDrawerIdleOnly(w) ==
  IF ~isAIWriting(w)
    THEN IF ~w.isOpen THEN openDrawer(w, FALSE) ELSE closeDrawer(w)
    ELSE w

\* isOpen and isAIWriting are those of the render the handler was created in.
toggleDrawer(w) ==
  IF ~isAIWriting(w)
    THEN IF ~w.isOpen THEN openDrawer(w, FALSE) ELSE closeDrawer(w)
    ELSE IF w.isOpen THEN closeDrawer(w) ELSE w

\* The callback of the auto-close effect's timeout.
autoCloseCallback(w) ==
  [setIsAutomaticOpen(setIsOpen(w, FALSE), FALSE) EXCEPT !.autoCloseTimer = NoTimer]

\* The callback of the success-reset effect's timeout.
successResetCallback(w) ==
  [setRegistrationSuccess(w, FALSE) EXCEPT !.successTimer = NoTimer]

\* The callback of closeDrawer's timeout.
forceCloseCallback(w) ==
  [setIsOpen(w, FALSE) EXCEPT !.forceCloseTimers = @ \ {0}]

(***************************************************************************)
(* Drawer content buttons.                                                 *)
(***************************************************************************)
handleRegistrationConfirm(w) == setIsWaitingForEmail(w, TRUE)

handleYesClick(w) == handleRegistrationConfirm(setIsWaitingForEmail(w, TRUE))

handleNoClick(w) ==
  [closeDrawer(w) EXCEPT !.noClickTimers = @ \cup {NoClickRetryMs}]

\* The callback of handleNoClick's timeout.
noClickCallback(w) ==
  closeDrawer([w EXCEPT !.noClickTimers = @ \ {0}])

(***************************************************************************)
(* ChatInput controller.                                                   *)
(***************************************************************************)
\* cooldownRef.current = true; setTimeout(() => cooldownRef.current = false, 10000).
\* lastOpenTimeRef is written here too but read nowhere, so it is no state.
startCooldown(w) ==
  [w EXCEPT !.cooldownRef = TRUE, !.cooldownTimers = @ \cup {CooldownMs}]

\* The callback of a cooldown timeout.
cooldownCallback(w) ==
  [w EXCEPT !.cooldownRef = FALSE, !.cooldownTimers = @ \ {0}]

\* isOpen is the one of the render the handler was created in: the drawer's
\* state before the toggle.
safeToggleDrawer(w) ==
  IF ~isAIWriting(w)
    THEN IF ~w.isOpen THEN startCooldown(toggleDrawer(w)) ELSE toggleDrawer(w)
    ELSE w

\* handleInputChange({target: {value: v}})
handleInputChange(w, v) == [w EXCEPT !.input = v]

\* handleSubmit(e) of the chat transport: the text goes out as a chat message.
\* What the transport then does to status, messages and input is its own
\* (StatusChanges, MessageArrives, TypeInput).
handleSubmit(w, text) == [w |-> w, sent |-> text, saved |-> NoText]

\* handleEmailSubmit without the test of the input against the pattern.
handleEmailSubmitUnvalidated(w) ==
  IF w.isWaitingForEmail
    THEN [w |-> [w EXCEPT !.pending = Append(@, w.input)],
          sent |-> NoText, saved |-> w.input]
    ELSE handleSubmit(w, w.input)

\* handleEmailSubmit up to the await: saveEmail is called with the input
\* (saved), or the input falls through to handleSubmit (sent).
handleEmailSubmit(w) ==
  IF w.isWaitingForEmail /\ emailRegexTest(w.input)
    THEN [w |-> [w EXCEPT !.pending = Append(@, w.input)],
          sent |-> NoText, saved |-> w.input]
    ELSE handleSubmit(w, w.input)

\* emailNotSaved returning from the catch block.
emailNotSavedSwallowed(w, text) == [w |-> w, sent |-> NoText, saved |-> NoText]

\* handleEmailSubmit after saveEmail rejected: the catch block logs, and the
\* text the call was made with falls through to handleSubmit.
emailNotSaved(w, text) == handleSubmit(w, text)


\* emailSaved without the call of closeDrawer.
emailSavedNoClose(w) ==
  LET w1 == setRegistrationSuccess(w, TRUE)
      w3 == setIsWaitingForEmail(w1, FALSE)
      w4 == handleInputChange(w3, TxtEmpty)
  IN startCooldown(w4)

\* emailSaved leaving the input as it is.
emailSavedKeepsInput(w) ==
  LET w1 == setRegistrationSuccess(w, TRUE)
      w2 == closeDrawer(w1)
      w3 == setIsWaitingForEmail(w2, FALSE)
  IN startCooldown(w3)

\* emailSaved with the wrong value given to setIsWaitingForEmail.
emailSavedStillWaiting(w) ==
  LET w1 == setRegistrationSuccess(w, TRUE)
      w2 == closeDrawer(w1)
      w3 == setIsWaitingForEmail(w2, TRUE)
      w4 == handleInputChange(w3, TxtEmpty)
  IN startCooldown(w4)

\* The part of handleEmailSubmit after saveEmail resolved.
emailSaved(w) ==
  LET w1 == setRegistrationSuccess(w, TRUE)
      w2 == closeDrawer(w1)
      w3 == setIsWaitingForEmail(w2, FALSE)
      w4 == handleInputChange(w3, TxtEmpty)
  IN startCooldown(w4)

(***************************************************************************)
(* Effects.  prev is the state of the previous render, cur the state being *)
(* rendered, acc the state the effects of this render have produced so far.*)
(***************************************************************************)
\* ChatInput: useEffect(..., [isOpen])
cooldownEffect(prev, cur, acc) ==
  IF cur.isOpen # prev.isOpen /\ ~cur.isOpen THEN startCooldown(acc) ELSE acc

\* checkForRegistrationIntent without the test of the message's role.
checkForRegistrationIntentAnyRole(cur, acc) ==
  IF acc.cooldownRef \/ cur.isOpen
    THEN acc
    ELSE IF hasIntent(cur.lastMessage.content)
              /\ ~isAIWriting(cur)
              /\ ~cur.isOpen
           THEN openDrawer(acc, TRUE)
           ELSE acc

\* ChatInput: the function the intent effect defines and calls.
checkForRegistrationIntent(cur, acc) ==
  IF acc.cooldownRef \/ cur.isOpen
    THEN acc
    ELSE IF cur.lastMessage.role = "user"
              /\ hasIntent(cur.lastMessage.content)
              /\ ~isAIWriting(cur)
              /\ ~cur.isOpen
           THEN openDrawer(acc, TRUE)
           ELSE acc

\* ChatInput: useEffect(..., [messages, status, isAIWriting, isOpen, openDrawer,
\* lastOpenTimeRef]).  openDrawer is a new function at every render of the
\* provider, so the effect runs after every render.
intentEffect(cur, acc) ==
  IF cur.status = "ready" \/ cur.status = "error"
    THEN checkForRegistrationIntent(cur, acc)
    ELSE acc


\* The auto-close effect arming its timeout for any open drawer.
autoCloseEffectAnyOpen(prev, cur, acc) ==
  IF cur.isOpen = prev.isOpen /\ cur.isAutomaticOpen = prev.isAutomaticOpen
    THEN acc
    ELSE [acc EXCEPT !.autoCloseTimer = IF cur.isOpen THEN AutoCloseMs ELSE NoTimer]

\* DrawerProvider: useEffect(..., [isOpen, isAutomaticOpen])
autoCloseEffect(prev, cur, acc) ==
  IF cur.isOpen = prev.isOpen /\ cur.isAutomaticOpen = prev.isAutomaticOpen
    THEN acc
    ELSE [acc EXCEPT !.autoCloseTimer =
            IF cur.isOpen /\ cur.isAutomaticOpen THEN AutoCloseMs ELSE NoTimer]

\* The success-reset effect depending on isOpen alone.
successResetEffectOnClose(prev, cur, acc) ==
  IF cur.isOpen = prev.isOpen
    THEN acc
    ELSE [acc EXCEPT !.successTimer =
            IF ~cur.isOpen /\ cur.registrationSuccess THEN SuccessResetMs ELSE NoTimer]

\* DrawerProvider: useEffect(..., [isOpen, registrationSuccess])
successResetEffect(prev, cur, acc) ==
  IF cur.isOpen = prev.isOpen /\ cur.registrationSuccess = prev.registrationSuccess
    THEN acc
    ELSE [acc EXCEPT !.successTimer =
            IF ~cur.isOpen /\ cur.registrationSuccess THEN SuccessResetMs ELSE NoTimer]

\* The provider's own effects.
StoreEffects(prev, cur, acc) ==
  successResetEffect(prev, cur, autoCloseEffect(prev, cur, acc))

\* One render of the whole view: the child's (ChatInput's) effects run before
\* the provider's.
ViewEffects(prev, cur) ==
  StoreEffects(prev, cur, intentEffect(cur, cooldownEffect(prev, cur, cur)))

\* The renders that follow a handler: none if nothing rendered changed, and a
\* second one if an effect of the first updated state.
Settle(prev, cur) ==
  IF ~cur.mounted \/ Rendered(prev) = Rendered(cur)
    THEN cur
    ELSE LET w1 == ViewEffects(prev, cur) IN
         IF Rendered(w1) = Rendered(cur) THEN w1 ELSE ViewEffects(cur, w1)

\* The same for the provider with no ChatInput under it.
SettleStore(prev, cur) ==
  IF Rendered(prev) = Rendered(cur) THEN cur ELSE StoreEffects(prev, cur, cur)

(***************************************************************************)
(* State machine.                                                          *)
(***************************************************************************)
\* What the last step did, when it was a call of the store or a step of the
\* email submission: its name, its argument, the text it gave to handleSubmit
\* and the text it gave to saveEmail.
Op(name, arg, sent, saved) == [op |-> name, arg |-> arg, sent |-> sent, saved |-> saved]
NoOp == Op("-", "-", NoText, NoText)

Min(S) == CHOOSE x \in S : \A y \in S : x <= y

Older(a, d, cap) == IF a + d > cap THEN cap ELSE a + d

Deadlines(w) ==
  (({w.autoCloseTimer, w.successTimer} \ {NoTimer})
     \cup w.forceCloseTimers \cup w.noClickTimers \cup w.cooldownTimers)

OnGrid == phase = 0

\* The drawer is closed and in the success sub-mode.
SuccessClosed(w) == w.registrationSuccess /\ ~w.isOpen

\* The bounds of the model: an action that would exceed them is not taken.
Fits(w) ==
  /\ Cardinality(w.forceCloseTimers) <= MaxTimers
  /\ Cardinality(w.noClickTimers) <= MaxTimers
  /\ Cardinality(w.cooldownTimers) <= MaxTimers
  /\ Len(w.pending) <= MaxPending

\* The next state is w; o names the handler that produced it.  No time passes.
Commit(w, o) ==
  /\ Fits(w)
  /\ isOpen' = w.isOpen
  /\ isWaitingForEmail' = w.isWaitingForEmail
  /\ isAutomaticOpen' = w.isAutomaticOpen
  /\ registrationSuccess' = w.registrationSuccess
  /\ timeSinceClose' = w.timeSinceClose
  /\ autoCloseTimer' = w.autoCloseTimer
  /\ successTimer' = w.successTimer
  /\ forceCloseTimers' = w.forceCloseTimers
  /\ noClickTimers' = w.noClickTimers
  /\ cooldownRef' = w.cooldownRef
  /\ cooldownTimers' = w.cooldownTimers
  /\ pending' = w.pending
  /\ status' = w.status
  /\ input' = w.input
  /\ lastMessage' = w.lastMessage
  /\ mounted' = w.mounted
  /\ openAge' = IF isOpen /\ w.isOpen THEN openAge ELSE 0
  /\ closedAge' = IF ~isOpen /\ ~w.isOpen THEN closedAge ELSE 0
  /\ successAge' = IF SuccessClosed(World) /\ SuccessClosed(w) THEN successAge ELSE 0
  /\ autoOpened' = ((~isOpen /\ w.isOpen /\ w.isAutomaticOpen)
                     \/ (autoOpened /\ w.lastMessage = lastMessage /\ w.status = status))
  /\ last' = o
  /\ phase' = phase

\* The state after the mount: every useState and useRef at its initial value
\* (lastCloseTimeRef is 0, ages ago), and the mount's effects run (the cooldown
\* effect finds the drawer closed).
Init ==
  /\ isOpen = FALSE
  /\ isWaitingForEmail = FALSE
  /\ isAutomaticOpen = FALSE
  /\ registrationSuccess = FALSE
  /\ timeSinceClose = ReopenSuppressMs
  /\ autoCloseTimer = NoTimer
  /\ successTimer = NoTimer
  /\ forceCloseTimers = {}
  /\ noClickTimers = {}
  /\ cooldownRef = TRUE
  /\ cooldownTimers = {CooldownMs}
  /\ pending = <<>>
  /\ status = "ready"
  /\ input = TxtEmpty
  /\ lastMessage = NoMessage
  /\ mounted = TRUE
  /\ phase = 0
  /\ openAge = 0
  /\ closedAge = AgeCap
  /\ successAge = 0
  /\ autoOpened = FALSE
  /\ last = NoOp

\* The "+" button of the input bar.
ClickToggle ==
  /\ mounted /\ OnGrid
  /\ Commit(Settle(World, safeToggleDrawer(World)), NoOp)

\* "Oui": rendered while the drawer shows the question.
ClickYes ==
  /\ mounted /\ OnGrid
  /\ drawerIsVisible(World) /\ ~registrationSuccess /\ ~isWaitingForEmail
  /\ Commit(Settle(World, handleYesClick(World)), NoOp)

\* "Non": rendered while the drawer shows the question.
ClickNo ==
  /\ mounted /\ OnGrid
  /\ drawerIsVisible(World) /\ ~registrationSuccess /\ ~isWaitingForEmail
  /\ Commit(Settle(World, handleNoClick(World)), NoOp)

\* The drawer's close button.
ClickX ==
  /\ mounted /\ OnGrid
  /\ drawerIsVisible(World)
  /\ Commit(Settle(World, closeDrawer(World)), NoOp)

\* The window's keydown listener.
PressEscape ==
  /\ mounted /\ OnGrid
  /\ Commit(Settle(World, closeDrawer(World)), NoOp)

\* Typing: the input is disabled while the assistant is busy.
TypeInput ==
  /\ mounted /\ OnGrid
  /\ ~isLoading(World)
  /\ \E v \in Texts \ {input} :
       Commit(Settle(World, handleInputChange(World, v)), NoOp)

\* What the Enter key and the send button both run on the input as it is:
\* handleEmailSubmit while waiting for the email, else the chat's handleSubmit.
SubmitInput ==
  IF isWaitingForEmail
    THEN LET r == handleEmailSubmit(World) IN
         Commit(r.w, Op("handleEmailSubmit", "-", r.sent, r.saved))
    ELSE Commit(handleSubmit(World, input).w, NoOp)

PressEnter ==
  /\ mounted /\ OnGrid
  /\ ~isLoading(World)
  /\ SubmitInput

ClickSend ==
  /\ mounted /\ OnGrid
  /\ ~(~isLoading(World) /\ Len(input) = 0)
  /\ IF isLoading(World)
       THEN Commit(World, NoOp)
       ELSE SubmitInput

RemoveAt(q, i) == SubSeq(q, 1, i - 1) \o SubSeq(q, i + 1, Len(q))

\* saveEmail resolves: the rest of the try block runs.
SaveEmailResolves ==
  /\ OnGrid
  /\ \E i \in 1..Len(pending) :
    Commit(Settle(World, emailSaved([World EXCEPT !.pending = RemoveAt(@, i)])),
           Op("emailSaved", "-", NoText, pending[i]))

\* saveEmail rejects: the catch block logs, then handleSubmit(e) runs.
SaveEmailRejects ==
  /\ OnGrid
  /\ \E i \in 1..Len(pending) :
    LET r == emailNotSaved([World EXCEPT !.pending = RemoveAt(@, i)], pending[i]) IN
    Commit(Settle(World, r.w), Op("emailNotSaved", "-", r.sent, pending[i]))

AutoCloseFires ==
  /\ autoCloseTimer = 0
  /\ Commit(Settle(World, autoCloseCallback(World)), NoOp)

SuccessResetFires ==
  /\ successTimer = 0
  /\ Commit(Settle(World, successResetCallback(World)), NoOp)

ForceCloseFires ==
  /\ 0 \in forceCloseTimers
  /\ Commit(Settle(World, forceCloseCallback(World)), NoOp)

NoClickRetryFires ==
  /\ 0 \in noClickTimers
  /\ Commit(Settle(World, noClickCallback(World)), NoOp)

CooldownExpires ==
  /\ 0 \in cooldownTimers
  /\ Commit(cooldownCallback(World), NoOp)

\* The chat transport changes the status.
StatusChanges ==
  /\ mounted /\ OnGrid
  /\ \E s \in Statuses \ {status} :
       Commit(Settle(World, [World EXCEPT !.status = s]), NoOp)

\* The chat transport appends a message.
MessageArrives ==
  /\ mounted /\ OnGrid
  /\ \E m \in Messages \ {lastMessage} :
       Commit(Settle(World, [World EXCEPT !.lastMessage = m]), NoOp)

\* The session view unmounts: the effects' cleanups clear their timeouts.
Unmount ==
  /\ mounted /\ OnGrid
  /\ Commit([World EXCEPT !.mounted = FALSE, !.autoCloseTimer = NoTimer,
                          !.successTimer = NoTimer], NoOp)

\* Time passes, up to the next deadline or the next sampling instant, q being
\* the sampling period.
TickBy(q) ==
  /\ 0 \notin Deadlines(World)
  /\ LET d == Min(Deadlines(World) \cup {q - phase})
         Left(x) == IF x = NoTimer THEN NoTimer ELSE x - d
     IN /\ phase' = (phase + d) % q
        /\ timeSinceClose' = Older(timeSinceClose, d, ReopenSuppressMs)
        /\ autoCloseTimer' = Left(autoCloseTimer)
        /\ successTimer' = Left(successTimer)
        /\ forceCloseTimers' = {Left(x) : x \in forceCloseTimers}
        /\ noClickTimers' = {Left(x) : x \in noClickTimers}
        /\ cooldownTimers' = {Left(x) : x \in cooldownTimers}
        /\ openAge' = IF isOpen THEN Older(openAge, d, AgeCap) ELSE 0
        /\ closedAge' = IF isOpen THEN 0 ELSE Older(closedAge, d, AgeCap)
        /\ successAge' = IF SuccessClosed(World) THEN Older(successAge, d, AgeCap) ELSE 0
  /\ last' = NoOp
  /\ UNCHANGED <<isOpen, isWaitingForEmail, isAutomaticOpen, registrationSuccess,
                 cooldownRef, pending, status, input, lastMessage, mounted,
                 autoOpened>>

Tick == TickBy(Quantum)

Next ==
  \/ ClickToggle
  \/ ClickYes
  \/ ClickNo
  \/ ClickX
  \/ PressEscape
  \/ TypeInput
  \/ PressEnter
  \/ ClickSend
  \/ SaveEmailResolves
  \/ SaveEmailRejects
  \/ AutoCloseFires
  \/ SuccessResetFires
  \/ ForceCloseFires
  \/ NoClickRetryFires
  \/ CooldownExpires
  \/ StatusChanges
  \/ MessageArrives
  \/ Tick

Spec == Init /\ [][Next]_vars

\* The view, and its unmount at any sampled instant.
NextUnmount == Next \/ Unmount

SpecUnmount == Init /\ [][NextUnmount]_vars

(***************************************************************************)
(* The store alone: the DrawerProvider and a consumer that calls what the  *)
(* context exposes, in any order.                                          *)
(***************************************************************************)
Origin(isAutomatic) == IF isAutomatic THEN "automatic" ELSE "manual"

InitStore ==
  /\ isOpen = FALSE
  /\ isWaitingForEmail = FALSE
  /\ isAutomaticOpen = FALSE
  /\ registrationSuccess = FALSE
  /\ timeSinceClose = ReopenSuppressMs
  /\ autoCloseTimer = NoTimer
  /\ successTimer = NoTimer
  /\ forceCloseTimers = {}
  /\ noClickTimers = {}
  /\ cooldownRef = FALSE
  /\ cooldownTimers = {}
  /\ pending = <<>>
  /\ status = "ready"
  /\ input = TxtEmpty
  /\ lastMessage = NoMessage
  /\ mounted = TRUE
  /\ phase = 0
  /\ openAge = 0
  /\ closedAge = AgeCap
  /\ successAge = 0
  /\ autoOpened = FALSE
  /\ last = NoOp

CallOpenDrawer ==
  /\ OnGrid
  /\ \E isAutomatic \in BOOLEAN :
       Commit(SettleStore(World, openDrawer(World, isAutomatic)),
              Op("openDrawer", Origin(isAutomatic), NoText, NoText))

CallCloseDrawer ==
  /\ OnGrid
  /\ Commit(SettleStore(World, closeDrawer(World)),
            Op("closeDrawer", "-", NoText, NoText))

CallToggleDrawer ==
  /\ OnGrid
  /\ Commit(SettleStore(World, toggleDrawer(World)),
            Op("toggleDrawer", "-", NoText, NoText))

CallSetIsWaitingForEmail ==
  /\ OnGrid
  /\ \E v \in BOOLEAN :
       Commit(SettleStore(World, setIsWaitingForEmail(World, v)), NoOp)

CallSetRegistrationSuccess ==
  /\ OnGrid
  /\ \E v \in BOOLEAN :
       Commit(SettleStore(World, setRegistrationSuccess(World, v)), NoOp)

\* The chatStatus prop changes.
StoreStatusChanges ==
  /\ mounted /\ OnGrid
  /\ \E s \in Statuses \ {status} :
       Commit(SettleStore(World, [World EXCEPT !.status = s]), NoOp)

StoreAutoCloseFires ==
  /\ autoCloseTimer = 0
  /\ Commit(SettleStore(World, autoCloseCallback(World)), NoOp)

StoreSuccessResetFires ==
  /\ successTimer = 0
  /\ Commit(SettleStore(World, successResetCallback(World)), NoOp)

StoreForceCloseFires ==
  /\ 0 \in forceCloseTimers
  /\ Commit(SettleStore(World, forceCloseCallback(World)), NoOp)

StoreTick == TickBy(StoreQuantum)

NextStore ==
  \/ CallOpenDrawer
  \/ CallCloseDrawer
  \/ CallToggleDrawer
  \/ CallSetIsWaitingForEmail
  \/ CallSetRegistrationSuccess
  \/ StoreStatusChanges
  \/ StoreAutoCloseFires
  \/ StoreSuccessResetFires
  \/ StoreForceCloseFires
  \/ StoreTick

SpecStore == InitStore /\ [][NextStore]_vars

(***************************************************************************)
(* Properties.                                                             *)
(***************************************************************************)
Busy == status \in {"streaming", "submitted"}
Idle == status \in {"ready", "error"}

\* A step that runs the callback of a timeout.
TimeoutFires ==
  \/ AutoCloseFires
  \/ SuccessResetFires
  \/ ForceCloseFires
  \/ NoClickRetryFires
  \/ CooldownExpires

\* C1: after every handler and timer callback of the view, isWaitingForEmail
\* and registrationSuccess are never both true.
C1_SubModesExclusive == ~(isWaitingForEmail /\ registrationSuccess)

\* saveEmail resolved while the drawer was waiting for the email.
C1_Witness ==
  /\ last.op = "emailSaved"
  /\ registrationSuccess
  /\ ~isWaitingForEmail
  /\ successTimer = SuccessResetMs

\* C2: openDrawer called with either origin while the status is streaming or
\* submitted changes none of isOpen, the origin, isWaitingForEmail,
\* registrationSuccess and the time of the last close.
C2_OpenWhileBusyIsNoOp ==
  [][(last'.op = "openDrawer" /\ Busy)
       => UNCHANGED <<isOpen, isAutomaticOpen, isWaitingForEmail,
                      registrationSuccess, timeSinceClose>>]_vars

\* openDrawer(true) was called on the closed drawer while the status was
\* submitted, outside the reopen window.
C2_Witness ==
  /\ last.op = "openDrawer"
  /\ last.arg = "automatic"
  /\ status = "submitted"
  /\ timeSinceClose = ReopenSuppressMs
  /\ ~isOpen

\* C3: closeDrawer stamps the time of the close and closes; an openDrawer call
\* of either origin less than 2000 ms after the last closeDrawer is rejected
\* and leaves the drawer closed; one at 2000 ms or more, with the assistant
\* idle, opens the drawer with the requested origin.
C3_ReopenWindow ==
  [][/\ last'.op = "closeDrawer" => (timeSinceClose' = 0 /\ ~isOpen')
     /\ (last'.op = "openDrawer" /\ timeSinceClose < ReopenSuppressMs)
          => (~isOpen /\ ~isOpen' /\ UNCHANGED isAutomaticOpen)
     /\ (last'.op = "openDrawer" /\ timeSinceClose >= ReopenSuppressMs /\ Idle)
          => (isOpen' /\ isAutomaticOpen' = (last'.arg = "automatic"))]_vars

\* openDrawer was called 1500 ms after a closeDrawer, the assistant idle, and
\* the drawer is still closed.
C3_Witness ==
  /\ last.op = "openDrawer"
  /\ timeSinceClose = 1500
  /\ status = "ready"
  /\ ~isOpen

\* C4: an automatically opened drawer has its auto-close timeout pending and
\* due 8000 ms after the open, and that timeout closes it; no timeout closes
\* a manually opened drawer.
C4_AutoCloseOnlyAutomatic ==
  /\ []((isOpen /\ isAutomaticOpen)
          => (/\ autoCloseTimer # NoTimer
              /\ openAge <= AutoCloseMs
              /\ autoCloseTimer = AutoCloseMs - openAge))
  /\ [][/\ (AutoCloseFires /\ isOpen) => ~isOpen'
        /\ (TimeoutFires /\ isOpen /\ ~isAutomaticOpen) => isOpen']_vars

\* The drawer has just been closed, and not by closeDrawer: by the auto-close
\* timeout.
C4_Witness ==
  /\ ~isOpen
  /\ closedAge = 0
  /\ timeSinceClose = ReopenSuppressMs
  /\ autoCloseTimer = NoTimer
  /\ CooldownMs \in cooldownTimers

\* C5: whenever the drawer is closed, isWaitingForEmail is false, whatever
\* closed it.
C5_ClosedNotWaiting == ~isOpen => ~isWaitingForEmail

\* C6: no automatic open succeeds less than 10 s after the drawer last closed.
C6_NoAutoOpenInCooldown ==
  [][(~isOpen /\ isOpen' /\ isAutomaticOpen') => closedAge >= CooldownMs]_vars

C8_EmailSaved ==
  last.op = "emailSaved"
    => (/\ emailRegexTest(last.saved)
        /\ registrationSuccess
        /\ ~isOpen
        /\ ~isWaitingForEmail
        /\ input = TxtEmpty
        /\ timeSinceClose = 0
        /\ cooldownRef
        /\ CooldownMs \in cooldownTimers
        /\ last.sent = NoText)

\* saveEmail resolved for the email typed into the open, waiting drawer.
C8_Witness ==
  /\ last.op = "emailSaved"
  /\ last.saved = TxtEmail
  /\ registrationSuccess
  /\ closedAge = 0
  /\ ForceCloseMs \in forceCloseTimers

\* C9: when saveEmail rejects, the text it was called with goes to
\* handleSubmit, and neither the submit that called saveEmail nor the rejection
\* changes isOpen, isWaitingForEmail, registrationSuccess, the time of the
\* last close or the cooldown flag.
C9_EmailNotSaved ==
  [][/\ last'.op = "emailNotSaved"
          => (/\ last'.sent = last'.saved
              /\ emailRegexTest(last'.sent)
              /\ UNCHANGED <<isOpen, isWaitingForEmail, registrationSuccess,
                             timeSinceClose, cooldownRef, cooldownTimers>>)
     /\ (last'.op = "handleEmailSubmit" /\ last'.saved # NoText)
          => UNCHANGED <<isOpen, isWaitingForEmail, registrationSuccess,
                         timeSinceClose, cooldownRef, cooldownTimers>>]_vars

\* saveEmail rejected while the drawer was open and waiting for the email.
C9_Witness ==
  /\ last.op = "emailNotSaved"
  /\ last.sent = TxtEmail
  /\ isWaitingForEmail
  /\ isOpen
  /\ ~registrationSuccess

\* C10: a submit while waiting for the email of a text that does not match the
\* pattern does not call saveEmail, passes the text to handleSubmit, and
\* leaves isWaitingForEmail true and isOpen and registrationSuccess unchanged.
C10_InvalidEmailFallsThrough ==
  [][(last'.op = "handleEmailSubmit" /\ ~emailRegexTest(input))
       => (/\ last'.saved = NoText
           /\ pending' = pending
           /\ last'.sent = input
           /\ isWaitingForEmail /\ isWaitingForEmail'
           /\ UNCHANGED <<isOpen, registrationSuccess>>)]_vars

\* A text with an @ and no dot was submitted while waiting for the email.
C10_Witness ==
  /\ last.op = "handleEmailSubmit"
  /\ last.sent = TxtNoDot
  /\ last.saved = NoText
  /\ isWaitingForEmail
  /\ isOpen

\* C11: a render that follows a change of the messages, the status or the
\* typed input, with the status ready or error, the drawer closed, no
\* cooldown, 2000 ms or more since the last close and a last message of role
\* user whose lower-cased content contains a registration keyword opens the
\* drawer with automatic origin; the drawer is never opened automatically
\* when the last message is not a user message or contains no keyword.
C11_IntentDetection ==
  [][/\ (/\ ~isOpen /\ ~cooldownRef /\ timeSinceClose >= ReopenSuppressMs
         /\ lastMessage' = MsgSignUp
         /\ Idle'
         /\ lastMessage' # lastMessage \/ status' # status \/ input' # input
         /\ last' = NoOp)
          => (isOpen' /\ isAutomaticOpen' /\ autoCloseTimer' = AutoCloseMs)
     /\ (~isOpen /\ isOpen' /\ isAutomaticOpen')
          => (/\ lastMessage'.role = "user"
              /\ hasIntent(lastMessage'.content)
              /\ lastMessage' \notin {MsgHello, MsgReply, NoMessage}
              /\ Idle'
              /\ ~cooldownRef)]_vars

\* The user message "Sign up" has just opened the drawer automatically.
C11_Witness ==
  /\ isOpen
  /\ isAutomaticOpen
  /\ openAge = 0
  /\ lastMessage = MsgSignUp
  /\ status = "ready"

\* C12: while the drawer is open with automatic origin, less than 2000 ms
\* after the open, an openDrawer call of either origin changes none of isOpen,
\* the origin and the pending auto-close timeout.
C12_OpenAfterAutoOpenIsNoOp ==
  [][(last'.op = "openDrawer" /\ isOpen /\ isAutomaticOpen
        /\ openAge < ReopenSuppressMs)
       => UNCHANGED <<isOpen, isAutomaticOpen, autoCloseTimer>>]_vars

\* C13: the origin is automatic only while the drawer is open, and the 50 ms
\* timeout of closeDrawer never closes an open drawer.
C13_AutomaticImpliesOpen ==
  /\ [](isAutomaticOpen => isOpen)
  /\ [][(isOpen /\ StoreForceCloseFires) => isOpen']_vars

\* openDrawer(true) was called right after a closeDrawer, its 50 ms timeout
\* still pending, and the drawer is closed with no origin.
C13_Witness ==
  /\ last.op = "openDrawer"
  /\ last.arg = "automatic"
  /\ ForceCloseMs \in forceCloseTimers
  /\ timeSinceClose = 0
  /\ status = "ready"
  /\ ~isOpen
  /\ ~isAutomaticOpen

\* The step ends in the drawer state and timeouts of w.
Yields(w) ==
  /\ isOpen' = w.isOpen
  /\ isAutomaticOpen' = w.isAutomaticOpen
  /\ isWaitingForEmail' = w.isWaitingForEmail
  /\ registrationSuccess' = w.registrationSuccess
  /\ timeSinceClose' = w.timeSinceClose
  /\ autoCloseTimer' = w.autoCloseTimer
  /\ successTimer' = w.successTimer
  /\ forceCloseTimers' = w.forceCloseTimers

\* C14: toggleDrawer with the assistant busy closes an open drawer as
\* closeDrawer does and changes nothing on a closed one; with the assistant
\* idle it does what openDrawer(false) does on a closed drawer (rejection
\* inside the 2000 ms window included) and what closeDrawer does on an open
\* one.
C14_ToggleDrawer ==
  [][last'.op = "toggleDrawer"
       => /\ isOpen
            => (/\ Yields(SettleStore(World, closeDrawer(World)))
                /\ ~isOpen' /\ timeSinceClose' = 0)
          /\ (Busy /\ ~isOpen) => Yields(World)
          /\ (Idle /\ ~isOpen)
            => (/\ Yields(SettleStore(World, openDrawer(World, FALSE)))
                /\ isOpen' = (timeSinceClose >= ReopenSuppressMs)
                /\ ~isAutomaticOpen')]_vars

\* toggleDrawer was called on an open drawer while the assistant was busy.
C14_Witness ==
  /\ last.op = "toggleDrawer"
  /\ status = "streaming"
  /\ ~isOpen
  /\ timeSinceClose = 0
  /\ closedAge = 0
  /\ ForceCloseMs \in forceCloseTimers

\* C15: closeDrawer, from any state, ends with the drawer closed, no automatic
\* origin, isWaitingForEmail false, the time of the last close now, no
\* auto-close timeout pending and registrationSuccess as it was; called on a
\* drawer already closed and not waiting for the email, it changes nothing of
\* the drawer state and of the effects' timeouts.
C15_CloseDrawer ==
  [][last'.op = "closeDrawer"
       => /\ ~isOpen'
          /\ ~isAutomaticOpen'
          /\ ~isWaitingForEmail'
          /\ timeSinceClose' = 0
          /\ autoCloseTimer' = NoTimer
          /\ registrationSuccess' = registrationSuccess
          /\ (~isOpen /\ ~isWaitingForEmail)
               => UNCHANGED <<isOpen, isAutomaticOpen, isWaitingForEmail,
                              registrationSuccess, autoCloseTimer, successTimer>>]_vars

\* closeDrawer was called on a drawer that had been closed for a while.
C15_Witness ==
  /\ last.op = "closeDrawer"
  /\ closedAge > 0
  /\ closedAge < AgeCap
  /\ timeSinceClose = 0
  /\ ~isOpen

\* C16: once the view is unmounted, no timeout that fires changes the drawer
\* state, the time of the last close or the cooldown flag.
C16_NoTimeoutAfterUnmount ==
  [][(~mounted /\ TimeoutFires)
       => UNCHANGED <<isOpen, isAutomaticOpen, isWaitingForEmail,
                      registrationSuccess, timeSinceClose, cooldownRef>>]_vars

\* C17: an openDrawer call of either origin less than 2000 ms after the
\* drawer turned closed, by the auto-close timeout as by closeDrawer, is
\* rejected.
C17_WindowAfterAutoClose ==
  [][(last'.op = "openDrawer" /\ ~isOpen /\ closedAge < ReopenSuppressMs)
       => ~isOpen']_vars

\* C18: while the last message and the status stay the same, the drawer is
\* opened automatically at most once.
C18_OneAutoOpenPerTurn ==
  [][(/\ ~isOpen /\ isOpen' /\ isAutomaticOpen'
      /\ lastMessage' = lastMessage
      /\ status' = status)
       => ~autoOpened]_vars

\* C19: when a settlement of saveEmail directly follows the success of
\* another call, a second success leaves the drawer state as the first made
\* it, and a failure changes no drawer state and passes nothing to
\* handleSubmit.
C19_SecondSettlement ==
  [][(last.op = "emailSaved" /\ last'.op \in {"emailSaved", "emailNotSaved"})
       => /\ UNCHANGED <<isOpen, isAutomaticOpen, isWaitingForEmail,
                         registrationSuccess>>
          /\ last'.sent = NoText]_vars

\* C20: the drawer is never open while registrationSuccess is true.
C20_SuccessImpliesClosed == registrationSuccess => ~isOpen

\* The success sub-mode at the instant its reset is due: the drawer is still
\* closed, 500 ms into the reopen window of the close that came with the
\* success.
C20_Witness ==
  /\ registrationSuccess
  /\ ~isOpen
  /\ successTimer = 0
  /\ successAge = SuccessResetMs
  /\ timeSinceClose = SuccessResetMs

====
